---- MODULE Spec2Model ----
(***************************************************************************)
(* A model of src/particles.js: the two canvas animators MarketTrends      *)
(* (the spec's WaveField) and ParticleNetwork (the spec's ParticleField),  *)
(* the two DOMContentLoaded handlers that construct them, and the host     *)
(* events that drive them (resize, mousemove, mouseout, timers and         *)
(* requestAnimationFrame callbacks).                                       *)
(*                                                                         *)
(* Numbers.  JavaScript numbers are doubles.  Lengths, positions and       *)
(* velocities of ParticleNetwork are kept in fixed point, Scale units per  *)
(* pixel; NaN is a value of its own, absorbed by arithmetic and failing    *)
(* every comparison, as in IEEE 754.  MarketTrends' time is kept in        *)
(* thousandths, its waveLength in ten-thousandths, its yOffset in halves.  *)
(*                                                                         *)
(* Math.random() is a generator with hidden state: rng is that state, an   *)
(* index into the cyclic RandomTable of numerators over RandDen.           *)
(***************************************************************************)
EXTENDS Integers, Sequences, FiniteSets, TLC

VARIABLES
  phase,          \* "loading" | "waveReady" | "running": DOMContentLoaded dispatch
  reducedMotion,  \* matchMedia("(prefers-reduced-motion: reduce)").matches
  canvasPresent,  \* document.getElementById("particles-canvas") is not null
  heroPresent,    \* document.querySelector(".hero") is not null
  innerWidth,     \* window.innerWidth
  innerHeight,    \* window.innerHeight
  canvasWidth,    \* canvas.width of the one canvas both classes look up
  canvasHeight,   \* canvas.height
  surfaceOps,     \* the <<animator, call>> pairs issued on the canvas so far
  wave,           \* the MarketTrends instance
  pn,             \* the ParticleNetwork instance
  rng,            \* state of Math.random()
  timers,         \* pending setTimeout timers: [id, left (ms)]
  rafPending,     \* requestAnimationFrame callbacks for the next refresh
  rafRunning,     \* callbacks of the refresh in progress, still to run
  sinceResize,    \* history: ms since the last resize event, capped at DebounceMs
  burst,          \* history: the current burst of resize events: its number of events n,
                  \*   and each animator's count of resize() executions when it began
  createLog,      \* history: what the last createParticles() call returned
  readyWidth,     \* history: window.innerWidth when MarketTrends.init ran
  nResizes,       \* number of resize events so far
  nFrames         \* number of display refreshes so far

vars == <<phase, reducedMotion, canvasPresent, heroPresent, innerWidth, innerHeight,
          canvasWidth, canvasHeight, surfaceOps, wave, pn, rng, timers, rafPending,
          rafRunning, sinceResize, burst, createLog, readyWidth, nResizes, nFrames>>

----------------------------------------------------------------------------
(* Bounds of the model. *)

MaxResizes == 2
MaxFrames == 1
Scale == 160
RandDen == 5000

(* Program constants. *)

waveCount == 3
WaveSpeedMilli == 3
MinWaveViewport == 1024
LargeScreen == 1600
StandardScreen == 1200
AmplitudeLarge == 90
AmplitudeStandard == 60
AmplitudeCompact == 30
WaveLengthLarge == 10
WaveLengthStandard == 15
WaveLengthCompact == 25
MaxWaveHeight == 1200
DebounceMs == 100
MaxParticleHeight == 850
AreaPerParticle == 12000
InitAreaPerParticle == 10000
MaxParticles == 80
connectionDistance == 140
mouseDistance == 200
RepelRadius == 150

(* Values that are not whole numbers, in fixed point. *)

speed == Scale \div 5                  \* config.speed: 0.2
AmbientLimit == Scale \div 10          \* 0.1
TickMs == DebounceMs \div 2            \* granularity of the clock

(* The environment the page offers. *)

Viewports == { <<1920, 1300>>, <<1024, 120>>, <<100, 100>> }
MousePositions == { <<0, 0>>, <<60, 80>> }
Seeds == {0}
Hero == [offsetTop |-> 0, offsetHeight |-> 800]
DefaultCanvas == <<300, 150>>
RandomTable == <<0, 0, 0, 4999, 4999, 4750, 4750, 2500, 1250>>
None == <<>>

----------------------------------------------------------------------------
(* Numbers *)

\* F(v), with v evaluated once
Bind(v, F(_)) == CHOOSE out \in {F(x) : x \in {v}} : TRUE

NaN == -2147483647

IsNaN(a) == a = NaN

Min(a, b) == IF a <= b THEN a ELSE b

Add(a, b) == IF IsNaN(a) \/ IsNaN(b) THEN NaN ELSE a + b

Sub(a, b) == IF IsNaN(a) \/ IsNaN(b) THEN NaN ELSE a - b

Neg(a) == IF IsNaN(a) THEN NaN ELSE 0 - a

Abs(a) == IF IsNaN(a) THEN NaN ELSE IF a < 0 THEN 0 - a ELSE a

Less(a, b) == ~IsNaN(a) /\ ~IsNaN(b) /\ a < b

\* a / b rounded toward zero, for b > 0
Quot(a, b) == IF a < 0 THEN 0 - ((0 - a) \div b) ELSE a \div b

\* the largest whole number whose square 32-bit integer arithmetic holds
MaxRoot == 46340

\* the largest m in lo..hi with m * m <= n, given lo * lo <= n
RECURSIVE SqrtSearch(_, _, _)
SqrtSearch(n, lo, hi) ==
  IF lo >= hi THEN lo
  ELSE Bind((lo + hi + 1) \div 2, LAMBDA mid :
         IF mid * mid <= n THEN SqrtSearch(n, mid, hi) ELSE SqrtSearch(n, lo, mid - 1))

\* Math.sqrt(dx * dx + dy * dy), rounded down, for |dx|, |dy| < Far: the root
\* lies between the larger of |dx|, |dy| and their sum
Hypot(dx, dy) ==
  Bind(<<dx * dx + dy * dy, IF Abs(dx) >= Abs(dy) THEN Abs(dx) ELSE Abs(dy),
         Min(Abs(dx) + Abs(dy), MaxRoot)>>,
       LAMBDA a : SqrtSearch(a[1], a[2], a[3]))

\* Math.sqrt(dx * dx + dy * dy).  The code compares a distance only with
\* thresholds of at most mouseDistance pixels, so a distance beyond that is
\* returned as mouseDistance (and its squares, beyond 32-bit integers, are not taken).
Far == mouseDistance * Scale

Distance(dx, dy) ==
  IF IsNaN(dx) \/ IsNaN(dy) THEN NaN
  ELSE IF Abs(dx) >= Far \/ Abs(dy) >= Far THEN Far
  ELSE Min(Hypot(dx, dy), Far)

\* Math.random(): the numerator of the value drawn in the generator's state r
RandomValue(r) == RandomTable[(r % Len(RandomTable)) + 1]

----------------------------------------------------------------------------
(* Host services *)

SetTimeout(ts, id, delay) == ts \cup {[id |-> id, left |-> delay]}

\* ClearTimeout, mutated: the pending timer is not cancelled
ClearTimeoutNot(ts, id) == ts

ClearTimeout(ts, id) == {t \in ts : t.id # id}

\* RequestAnimationFrame, mutated: the frame does not request the next one
RequestAnimationFrameNot(q, who) == q

RequestAnimationFrame(q, who) == Append(q, who)

Issue(ops, who, calls) == ops \cup {<<who, c>> : c \in calls}

TimerDue == \E t \in timers : t.left = 0

----------------------------------------------------------------------------
(* MarketTrends *)

WaveAbsent ==
  [constructed |-> FALSE, canvas |-> FALSE, width |-> 0, height |-> 0, yOffset2 |-> 0,
   waveAmplitude |-> 0, waveLength |-> 0, time |-> 0, resizeTimer |-> 0,
   listening |-> FALSE, frames |-> 0, layerTimes |-> <<>>, resizeRuns |-> 0]

\* constructor, up to the call of init()
WaveConstruct(vw, vh) ==
  [WaveAbsent EXCEPT !.constructed = TRUE, !.canvas = TRUE, !.width = vw, !.height = vh,
                     !.waveAmplitude = AmplitudeStandard, !.waveLength = WaveLengthStandard]

\* WaveInitSkips, mutated: < for <=
WaveInitSkipsBelow(vw) == vw < MinWaveViewport

\* init(): the early return
WaveInitSkips(vw) == vw <= MinWaveViewport

\* resize(), on the instance; the writes to the canvas are the action's
WaveResize(w, vw, vh) ==
  LET h == IF heroPresent THEN Hero.offsetTop + Hero.offsetHeight ELSE Min(vh, MaxWaveHeight)
      y2 == IF heroPresent THEN 2 * Hero.offsetTop + Hero.offsetHeight ELSE h
  IN  [w EXCEPT !.width = vw, !.height = h, !.yOffset2 = y2,
                !.waveAmplitude = IF vw >= LargeScreen THEN AmplitudeLarge
                                  ELSE IF vw >= StandardScreen THEN AmplitudeStandard
                                  ELSE AmplitudeCompact,
                !.waveLength = IF vw >= LargeScreen THEN WaveLengthLarge
                               ELSE IF vw >= StandardScreen THEN WaveLengthStandard
                               ELSE WaveLengthCompact,
                !.resizeRuns = @ + 1]

\* WaveAnimate, mutated: time advances inside the loop over the layers
WaveAnimatePerLayer(w) ==
  [w EXCEPT !.time = @ + waveCount * WaveSpeedMilli, !.frames = @ + 1,
            !.layerTimes = [i \in 1..waveCount |-> w.time + i * WaveSpeedMilli]]

\* animate(), on the instance: time advances once, then every layer reads it
WaveAnimate(w) ==
  LET t == w.time + WaveSpeedMilli
  IN  [w EXCEPT !.time = t, !.frames = @ + 1, !.layerTimes = [i \in 1..waveCount |-> t]]

WaveCalls == {"clearRect", "fill"}

----------------------------------------------------------------------------
(* ParticleNetwork *)

ParticlesAbsent ==
  [constructed |-> FALSE, canvas |-> FALSE, width |-> 0, height |-> 0, particleCount |-> 0,
   particles |-> <<>>, mouse |-> None, listening |-> FALSE, frames |-> 0, resizeRuns |-> 0]

\* constructor, up to the call of init()
ParticleConstruct(vw, vh) ==
  [ParticlesAbsent EXCEPT !.constructed = TRUE, !.canvas = TRUE, !.width = vw, !.height = vh,
                          !.particleCount = Min((vw * vh) \div InitAreaPerParticle, MaxParticles)]

\* the object pushed by createParticles(), r the generator's state before it
Particle(r, width, height) ==
  [x |-> (RandomValue(r) * width * Scale) \div RandDen,
   y |-> (RandomValue(r + 1) * height * Scale) \div RandDen,
   vx |-> Quot((2 * RandomValue(r + 2) - RandDen) * speed, 2 * RandDen),
   vy |-> Quot((2 * RandomValue(r + 3) - RandDen) * speed, 2 * RandDen),
   size |-> (RandomValue(r + 4) * 2 * Scale) \div RandDen + Scale]

createParticles(p, r) ==
  [pn |-> [p EXCEPT !.particles = [i \in 1..p.particleCount |->
                                     Particle(r + 5 * (i - 1), p.width, p.height)]],
   rng |-> (r + 5 * p.particleCount) % Len(RandomTable),
   created |-> TRUE]

\* ParticleResize, mutated: config.particleCount is not recomputed
ParticleResizeKeepsCount(p, vw, vh, r) ==
  LET q == [p EXCEPT !.width = vw, !.height = Min(vh, MaxParticleHeight), !.resizeRuns = @ + 1]
  IN  IF Len(q.particles) > 0 THEN createParticles(q, r)
      ELSE [pn |-> q, rng |-> r, created |-> FALSE]

\* resize(), on the instance; the writes to the canvas are the action's
ParticleResize(p, vw, vh, r) ==
  LET h == Min(vh, MaxParticleHeight)
      q == [p EXCEPT !.width = vw, !.height = h,
                     !.particleCount = Min((vw * h) \div AreaPerParticle, MaxParticles),
                     !.resizeRuns = @ + 1]
  IN  IF Len(q.particles) > 0 THEN createParticles(q, r)
      ELSE [pn |-> q, rng |-> r, created |-> FALSE]

\* directionX (directionY): (d / distance) * ((150 - distance) / 150) * 0.6
Push(d, distance) ==
  IF distance = 0 THEN NaN
  ELSE Quot(Quot(d * (RepelRadius * Scale - distance), distance) * 6, 10 * RepelRadius)

\* animate(): mouse repulsion
Repelled(q, mouse) ==
  IF mouse = None THEN q
  ELSE LET dx == Sub(q.x, mouse[1] * Scale)
           dy == Sub(q.y, mouse[2] * Scale)
       IN  Bind(Distance(dx, dy), LAMBDA distance :
             IF Less(distance, RepelRadius * Scale)
             THEN [q EXCEPT !.vx = Add(@, Push(dx, distance)), !.vy = Add(@, Push(dy, distance))]
             ELSE q)

\* animate(): move, then friction
Moved(q) ==
  [q EXCEPT !.x = Add(@, q.vx), !.y = Add(@, q.vy),
            !.vx = IF IsNaN(@) THEN NaN ELSE Quot(@ * 98, 100),
            !.vy = IF IsNaN(@) THEN NaN ELSE Quot(@ * 98, 100)]

\* (Math.random() - 0.5) * 0.05
Nudge(r) == Quot((2 * RandomValue(r) - RandDen) * Scale, 40 * RandDen)

\* animate(): keep a minimum speed.  The Math.random() calls the particle q,
\* moved, makes: 0 none, 1 for vx, 2 for vy, 3 for both
Nudges(q) ==
  IF Less(Distance(q.vx, q.vy), speed)
  THEN (IF Less(Abs(q.vx), AmbientLimit) THEN 1 ELSE 0)
       + (IF Less(Abs(q.vy), AmbientLimit) THEN 2 ELSE 0)
  ELSE 0

\* the particle after the nudges n, r the generator's state before them
Drifted(q, n, r) ==
  [q EXCEPT !.vx = IF n \in {1, 3} THEN Add(@, Nudge(r)) ELSE @,
            !.vy = IF n \in {2, 3} THEN Add(@, Nudge(IF n = 3 THEN r + 1 ELSE r)) ELSE @]

\* animate(): bounce off edges
Bounced(q, width, height) ==
  LET a == IF Less(q.x, 0) THEN [q EXCEPT !.x = 0, !.vx = Neg(@)] ELSE q
      b == IF Less(width * Scale, a.x) THEN [a EXCEPT !.x = width * Scale, !.vx = Neg(@)] ELSE a
      c == IF Less(b.y, 0) THEN [b EXCEPT !.y = 0, !.vy = Neg(@)] ELSE b
  IN  IF Less(height * Scale, c.y) THEN [c EXCEPT !.y = height * Scale, !.vy = Neg(@)] ELSE c

\* drawLines(p, i): whether it strokes a line from q, the particle at index i,
\* to a particle after it (ps holds those as they are before their own turn)
\* or to the mouse
drawLines(q, ps, i, mouse) ==
  \/ \E j \in (i + 1)..Len(ps) :
       Less(Distance(Sub(q.x, ps[j].x), Sub(q.y, ps[j].y)), connectionDistance * Scale)
  \/ /\ mouse # None
     /\ Less(Distance(Sub(q.x, mouse[1] * Scale), Sub(q.y, mouse[2] * Scale)),
             mouseDistance * Scale)

\* the number of Math.random() calls the loop of animate() makes before it
\* reaches particle i, nudges[k] being Nudges of particle k
CallsBefore(nudges, i) ==
  Cardinality({k \in 1..(i - 1) : nudges[k] # 0}) + Cardinality({k \in 1..(i - 1) : nudges[k] = 3})

\* animate(), on the instance; the generator's state after and the canvas calls made
ParticleAnimate(p, r) ==
  Bind(<<>> \o [i \in 1..Len(p.particles) |->
                  Bind(Repelled(p.particles[i], p.mouse), LAMBDA q : Moved(q))],
       LAMBDA moved :
  Bind(<<>> \o [i \in 1..Len(moved) |-> Nudges(moved[i])],
       LAMBDA nudges :
  Bind(<<>> \o [i \in 1..Len(moved) |->
                  Bind(Drifted(moved[i], nudges[i], r + CallsBefore(nudges, i)),
                       LAMBDA q : Bounced(q, p.width, p.height))],
       LAMBDA after :
    [pn |-> [p EXCEPT !.particles = after, !.frames = @ + 1],
     rng |-> (r + CallsBefore(nudges, Len(nudges) + 1)) % Len(RandomTable),
     calls |-> {"clearRect"}
               \cup (IF after # <<>> THEN {"fill"} ELSE {})
               \cup (IF \E i \in 1..Len(after) : drawLines(after[i], p.particles, i, p.mouse)
                     THEN {"stroke"} ELSE {})])))

\* history: the outcome of a createParticles() call
CreateLogOf(p) ==
  [n |-> Len(p.particles), width |-> p.width, height |-> p.height,
   at |-> {<<p.particles[i].x, p.particles[i].y>> : i \in 1..Len(p.particles)}]

----------------------------------------------------------------------------
(* The page *)

Init ==
  /\ phase = "loading"
  /\ reducedMotion \in BOOLEAN
  /\ canvasPresent \in BOOLEAN
  /\ heroPresent \in BOOLEAN
  /\ \E v \in Viewports : innerWidth = v[1] /\ innerHeight = v[2]
  /\ canvasWidth = DefaultCanvas[1]
  /\ canvasHeight = DefaultCanvas[2]
  /\ surfaceOps = {}
  /\ wave = WaveAbsent
  /\ pn = ParticlesAbsent
  /\ rng \in Seeds
  /\ timers = {}
  /\ rafPending = <<>>
  /\ rafRunning = <<>>
  /\ sinceResize = DebounceMs
  /\ burst = [n |-> 0, w |-> 0, p |-> 0]
  /\ createLog = None
  /\ readyWidth = 0
  /\ nResizes = 0
  /\ nFrames = 0

\* the first DOMContentLoaded listener
DOMReadyWave ==
  /\ phase = "loading"
  /\ phase' = "waveReady"
  /\ readyWidth' = innerWidth
  /\ IF reducedMotion
     THEN UNCHANGED <<wave, canvasWidth, canvasHeight, surfaceOps, rafPending>>
     ELSE IF ~canvasPresent
     THEN /\ wave' = [WaveAbsent EXCEPT !.constructed = TRUE]
          /\ UNCHANGED <<canvasWidth, canvasHeight, surfaceOps, rafPending>>
     ELSE IF WaveInitSkips(innerWidth)
     THEN /\ wave' = WaveConstruct(innerWidth, innerHeight)
          /\ UNCHANGED <<canvasWidth, canvasHeight, surfaceOps, rafPending>>
     ELSE \E w \in {WaveResize(WaveConstruct(innerWidth, innerHeight), innerWidth, innerHeight)} :
              /\ wave' = WaveAnimate([w EXCEPT !.listening = TRUE])
              /\ canvasWidth' = w.width
              /\ canvasHeight' = w.height
              /\ surfaceOps' = Issue(surfaceOps, "W", {"size"} \cup WaveCalls)
              /\ rafPending' = RequestAnimationFrame(rafPending, "W")
  /\ UNCHANGED <<reducedMotion, canvasPresent, heroPresent, innerWidth, innerHeight, pn, rng,
                 timers, rafRunning, sinceResize, burst, createLog, nResizes, nFrames>>

\* the second DOMContentLoaded listener
DOMReadyParticles ==
  /\ phase = "waveReady"
  /\ phase' = "running"
  /\ IF ~canvasPresent
     THEN /\ pn' = [ParticlesAbsent EXCEPT !.constructed = TRUE]
          /\ UNCHANGED <<canvasWidth, canvasHeight, surfaceOps, rafPending, rng, createLog>>
     ELSE \E s \in {ParticleResize(ParticleConstruct(innerWidth, innerHeight),
                                    innerWidth, innerHeight, rng)} :
          \E c \in {createParticles(s.pn, s.rng)} :
          \E a \in {ParticleAnimate([c.pn EXCEPT !.listening = TRUE], c.rng)} :
              /\ pn' = a.pn
              /\ rng' = a.rng
              /\ createLog' = CreateLogOf(c.pn)
              /\ canvasWidth' = s.pn.width
              /\ canvasHeight' = s.pn.height
              /\ surfaceOps' = Issue(surfaceOps, "P", {"size"} \cup a.calls)
              /\ rafPending' = RequestAnimationFrame(rafPending, "P")
  /\ UNCHANGED <<reducedMotion, canvasPresent, heroPresent, innerWidth, innerHeight, wave,
                 timers, rafRunning, sinceResize, burst, readyWidth, nResizes, nFrames>>

Idle == phase = "running" /\ rafRunning = <<>>

\* a resize event of the window: MarketTrends' listener, then ParticleNetwork's
ResizeEvent(v) ==
  /\ Idle
  /\ ~TimerDue
  /\ nResizes < MaxResizes
  /\ v # <<innerWidth, innerHeight>>
  /\ innerWidth' = v[1]
  /\ innerHeight' = v[2]
  /\ nResizes' = nResizes + 1
  /\ sinceResize' = 0
  /\ IF wave.listening
     THEN /\ timers' = SetTimeout(ClearTimeout(timers, wave.resizeTimer), nResizes + 1, DebounceMs)
          /\ wave' = [wave EXCEPT !.resizeTimer = nResizes + 1]
     ELSE UNCHANGED <<timers, wave>>
  /\ burst' = IF sinceResize >= DebounceMs
              THEN [n |-> 1, w |-> wave.resizeRuns, p |-> pn.resizeRuns]
              ELSE [burst EXCEPT !.n = @ + 1]
  /\ IF pn.listening
     THEN \E s \in {ParticleResize(pn, v[1], v[2], rng)} :
            /\ pn' = s.pn
            /\ rng' = s.rng
            /\ createLog' = IF s.created THEN CreateLogOf(s.pn) ELSE createLog
            /\ canvasWidth' = s.pn.width
            /\ canvasHeight' = s.pn.height
            /\ surfaceOps' = Issue(surfaceOps, "P", {"size"})
     ELSE UNCHANGED <<pn, rng, createLog, canvasWidth, canvasHeight, surfaceOps>>
  /\ UNCHANGED <<phase, reducedMotion, canvasPresent, heroPresent, rafPending, rafRunning,
                 readyWidth, nFrames>>

\* time passes; a timer that is due fires before time passes further
Tick ==
  /\ Idle
  /\ ~TimerDue
  /\ timers # {} \/ sinceResize < DebounceMs
  /\ timers' = {[t EXCEPT !.left = @ - TickMs] : t \in timers}
  /\ sinceResize' = Min(sinceResize + TickMs, DebounceMs)
  /\ UNCHANGED <<phase, reducedMotion, canvasPresent, heroPresent, innerWidth, innerHeight,
                 canvasWidth, canvasHeight, surfaceOps, wave, pn, rng, rafPending, rafRunning,
                 burst, createLog, readyWidth, nResizes, nFrames>>

\* the callback of MarketTrends' resize timer
ResizeTimerFires ==
  /\ Idle
  /\ \E t \in timers :
       /\ t.left = 0
       /\ timers' = timers \ {t}
  /\ wave' = WaveResize(wave, innerWidth, innerHeight)
  /\ canvasWidth' = wave'.width
  /\ canvasHeight' = wave'.height
  /\ surfaceOps' = Issue(surfaceOps, "W", {"size"})
  /\ UNCHANGED <<phase, reducedMotion, canvasPresent, heroPresent, innerWidth, innerHeight,
                 pn, rng, rafPending, rafRunning, sinceResize, burst, createLog, readyWidth,
                 nResizes, nFrames>>

\* mousemove
MouseMove(m) ==
  /\ Idle
  /\ pn.listening
  /\ pn' = [pn EXCEPT !.mouse = m]
  /\ UNCHANGED <<phase, reducedMotion, canvasPresent, heroPresent, innerWidth, innerHeight,
                 canvasWidth, canvasHeight, surfaceOps, wave, rng, timers, rafPending,
                 rafRunning, sinceResize, burst, createLog, readyWidth, nResizes, nFrames>>

\* mouseout
MouseOut ==
  /\ Idle
  /\ pn.listening
  /\ pn' = [pn EXCEPT !.mouse = None]
  /\ UNCHANGED <<phase, reducedMotion, canvasPresent, heroPresent, innerWidth, innerHeight,
                 canvasWidth, canvasHeight, surfaceOps, wave, rng, timers, rafPending,
                 rafRunning, sinceResize, burst, createLog, readyWidth, nResizes, nFrames>>

\* a display refresh begins: the host takes the callbacks requested so far
Refresh ==
  /\ Idle
  /\ rafPending # <<>>
  /\ nFrames < MaxFrames
  /\ rafRunning' = rafPending
  /\ rafPending' = <<>>
  /\ nFrames' = nFrames + 1
  /\ UNCHANGED <<phase, reducedMotion, canvasPresent, heroPresent, innerWidth, innerHeight,
                 canvasWidth, canvasHeight, surfaceOps, wave, pn, rng, timers, sinceResize,
                 burst, createLog, readyWidth, nResizes>>

\* the frame callback () => this.animate() of MarketTrends
WaveFrame ==
  /\ rafRunning # <<>>
  /\ Head(rafRunning) = "W"
  /\ rafRunning' = Tail(rafRunning)
  /\ wave' = WaveAnimate(wave)
  /\ surfaceOps' = Issue(surfaceOps, "W", WaveCalls)
  /\ rafPending' = RequestAnimationFrame(rafPending, "W")
  /\ UNCHANGED <<phase, reducedMotion, canvasPresent, heroPresent, innerWidth, innerHeight,
                 canvasWidth, canvasHeight, pn, rng, timers, sinceResize, burst, createLog,
                 readyWidth, nResizes, nFrames>>

\* the frame callback () => this.animate() of ParticleNetwork
ParticleFrame ==
  /\ rafRunning # <<>>
  /\ Head(rafRunning) = "P"
  /\ rafRunning' = Tail(rafRunning)
  /\ \E a \in {ParticleAnimate(pn, rng)} :
         /\ pn' = a.pn
         /\ rng' = a.rng
         /\ surfaceOps' = Issue(surfaceOps, "P", a.calls)
  /\ rafPending' = RequestAnimationFrame(rafPending, "P")
  /\ UNCHANGED <<phase, reducedMotion, canvasPresent, heroPresent, innerWidth, innerHeight,
                 canvasWidth, canvasHeight, wave, timers, sinceResize, burst, createLog,
                 readyWidth, nResizes, nFrames>>

Next ==
  \/ DOMReadyWave
  \/ DOMReadyParticles
  \/ \E v \in Viewports : ResizeEvent(v)
  \/ Tick
  \/ ResizeTimerFires
  \/ \E m \in MousePositions : MouseMove(m)
  \/ MouseOut
  \/ Refresh
  \/ WaveFrame
  \/ ParticleFrame

Spec == Init /\ [][Next]_vars

\* the host runs every listener of the DOMContentLoaded event it dispatches,
\* delivers display refreshes, and runs the frame callbacks of each
FairSpec ==
  /\ Spec
  /\ WF_vars(DOMReadyParticles)
  /\ WF_vars(Refresh)
  /\ WF_vars(WaveFrame)
  /\ WF_vars(ParticleFrame)

----------------------------------------------------------------------------
(* Notions the properties below use *)

Animators == {"W", "P"}

\* the animator has entered its render loop
Started(who) == IF who = "W" THEN wave.frames > 0 ELSE pn.frames > 0

\* the frames the animator has rendered
Frames(who) == IF who = "W" THEN wave.frames ELSE pn.frames

\* the frame requests of the animator the host holds
Outstanding(who) ==
  Cardinality({i \in 1..Len(rafPending) : rafPending[i] = who})
    + Cardinality({i \in 1..Len(rafRunning) : rafRunning[i] = who})

\* executions of resize() since the current burst of resize events began
WaveRunsInBurst == wave.resizeRuns - burst.w

ParticleRunsInBurst == pn.resizeRuns - burst.p

InBounds(q, width, height) ==
  /\ ~IsNaN(q.x) /\ 0 <= q.x /\ q.x <= width * Scale
  /\ ~IsNaN(q.y) /\ 0 <= q.y /\ q.y <= height * Scale

----------------------------------------------------------------------------
(* Properties *)

\* C1: with the reduced-motion preference set, neither animator is ever
\* constructed and no call or size write is ever issued on the drawing surface.
C1_ReducedMotionLeavesSurfaceUntouched ==
  reducedMotion =>
    /\ ~wave.constructed
    /\ ~pn.constructed
    /\ surfaceOps = {}
    /\ <<canvasWidth, canvasHeight>> = DefaultCanvas

\* C2: ParticleNetwork's resize() runs at most once per burst of resize events
\* (events less than 100ms apart), not on the intermediate events of the burst.
C2_ParticleResizeOncePerBurst == ParticleRunsInBurst <= 1

\* C3: MarketTrends' resize is debounced: at most one resize timer is pending,
\* it is the one of the last resize event and is due 100ms after that event;
\* resize() does not run while it is pending (so never inside a resize event);
\* and once it has fired the burst has led to exactly one resize(), which read
\* the viewport as it is then.
C3_WaveResizeDebounced ==
  wave.listening =>
    /\ Cardinality(timers) <= 1
    /\ \A t \in timers : t.id = wave.resizeTimer /\ t.left = DebounceMs - sinceResize
    /\ timers # {} => WaveRunsInBurst = 0
    /\ (timers = {} /\ nResizes > 0) =>
         /\ WaveRunsInBurst = 1
         /\ sinceResize = DebounceMs
         /\ wave.width = innerWidth
         /\ wave.height = IF heroPresent THEN Hero.offsetTop + Hero.offsetHeight
                          ELSE Min(innerHeight, MaxWaveHeight)

\* C3, witness: a burst of two resize events has been followed by its one resize()
C3_Witness ==
  wave.listening /\ burst.n >= 2 /\ timers = {} /\ WaveRunsInBurst = 1 /\ wave.width # readyWidth

\* C4: the animators share no mutable state: a step of MarketTrends leaves
\* everything ParticleNetwork reads or writes unchanged, the size of its
\* drawing surface included, and the other way round.
C4_AnimatorsShareNothing ==
  [][/\ (DOMReadyWave \/ ResizeTimerFires \/ WaveFrame)
          => UNCHANGED <<pn, rng, createLog, canvasWidth, canvasHeight>>
     /\ (DOMReadyParticles \/ ParticleFrame)
          => UNCHANGED <<wave, timers, canvasWidth, canvasHeight>>]_vars

\* C5: if the viewport is at most 1024 wide when MarketTrends is initialized,
\* or its canvas is absent, MarketTrends stays inert for good: no resize(), no
\* listener, no timer, no frame rendered or requested, no call on the canvas.
C5_SmallViewportWaveInert ==
  (phase # "loading" /\ (readyWidth <= MinWaveViewport \/ ~canvasPresent)) =>
    /\ wave.resizeRuns = 0
    /\ ~wave.listening
    /\ timers = {}
    /\ wave.frames = 0
    /\ Outstanding("W") = 0
    /\ \A op \in surfaceOps : op[1] # "W"

\* C5, witness: initialized at most 1024 wide, the viewport has since grown
\* beyond 1024 and a display refresh has been delivered
C5_Witness ==
  /\ wave.constructed /\ wave.canvas
  /\ readyWidth <= MinWaveViewport
  /\ innerWidth > MinWaveViewport
  /\ sinceResize = DebounceMs
  /\ nFrames >= 1
  /\ Idle

C7_CreateParticlesCount ==
  createLog # None =>
    /\ createLog.n = Min((createLog.width * createLog.height) \div AreaPerParticle, MaxParticles)
    /\ \A at \in createLog.at :
         /\ 0 <= at[1] /\ at[1] <= createLog.width * Scale
         /\ 0 <= at[2] /\ at[2] <= createLog.height * Scale

\* C7, witness: a createParticles() run by a resize, at the cap of 80
C7_Witness ==
  createLog # None /\ createLog.n = MaxParticles /\ nResizes >= 1 /\ createLog.width # readyWidth

\* C8: at every frame boundary every particle lies within [0, width] x
\* [0, height] of the current surface.
C8_ParticlesStayInBounds ==
  Idle => \A i \in 1..Len(pn.particles) : InBounds(pn.particles[i], pn.width, pn.height)

\* C9: once the last resize has been handled, the number of particles is the
\* target count min(floor(width * height / 12000), 80) of the current surface.
C9_ParticleCountMatchesTarget ==
  (Idle /\ pn.listening) =>
    Len(pn.particles) = Min((pn.width * pn.height) \div AreaPerParticle, MaxParticles)

\* C10: MarketTrends' time starts at 0 and advances by speed once per frame, so
\* it is k * speed after k frames, whatever resizes happened, and all layers of a
\* frame are computed from the one value.
C10_WaveTimePerFrame ==
  /\ wave.time = wave.frames * WaveSpeedMilli
  /\ wave.frames > 0 => wave.layerTimes = [i \in 1..waveCount |-> wave.time]

\* C10, witness: two frames rendered, and a resize() run by the debounce timer
C10_Witness ==
  wave.frames >= 2 /\ wave.resizeRuns >= 2 /\ nResizes >= 1 /\ timers = {}

====
